---------------------------- MODULE Spec2Model ----------------------------
(***************************************************************************)
(* A model of pyopticaltable.py: the OpticalTable drawing surface, the     *)
(* OpticalElement handles its placement methods return, and the LaserBeam  *)
(* that joins handles with line segments.                                  *)
(*                                                                         *)
(* The matplotlib axes (self.ax) is modelled as the sequence of the        *)
(* primitives added to it, in the order of the calls that added them.      *)
(* Coordinates are exact numbers of the form (a + b*sqrt(2))/Scale, which  *)
(* is closed under the arithmetic the module does for angles that are      *)
(* multiples of 45 degrees; floating-point rounding is not modelled.       *)
(***************************************************************************)
EXTENDS Integers, Sequences, FiniteSets, TLC

VARIABLES
    tstate,        \* "absent" | "ok" | "failed": the OpticalTable object
    aspect_ratio,  \* self.aspect_ratio of the table (None before construction)
    ax,            \* the canvas: the primitives plotted so far, in order
    handles,       \* the OpticalElement objects the caller holds, in order
    beam,          \* the LaserBeam object the caller holds (None before)
    last,          \* the last call: operation, arguments, outcome, canvas before
    calls          \* the number of calls made on the table so far

vars == <<tstate, aspect_ratio, ax, handles, beam, last, calls>>

(***************************************************************************)
(* Python values.  None is a record, as numbers and objects are, so that   *)
(* it can be compared with them; NoneStr stands for None where the other   *)
(* values of an argument are strings (label, element_type).                *)
(***************************************************************************)
None == [none |-> TRUE]
NoneStr == "None"

(***************************************************************************)
(* Exact arithmetic: [a, b] stands for (a + b*sqrt(2)) / Scale.            *)
(***************************************************************************)
Scale == 2 * 200

ExactDiv(n, d) == CASE n % d = 0 -> n \div d

Num(k) == [a |-> k * Scale, b |-> 0]
Frac(n, d) == [a |-> ExactDiv(n * Scale, d), b |-> 0]
Add(p, q) == [a |-> p.a + q.a, b |-> p.b + q.b]
Sub(p, q) == [a |-> p.a - q.a, b |-> p.b - q.b]
Neg(p) == [a |-> 0 - p.a, b |-> 0 - p.b]
Mul(p, q) == [a |-> ExactDiv(p.a * q.a + 2 * p.b * q.b, Scale),
              b |-> ExactDiv(p.a * q.b + p.b * q.a, Scale)]
\* p / q for a rational q
Div(p, q) == [a |-> ExactDiv(p.a * Scale, q.a), b |-> ExactDiv(p.b * Scale, q.a)]
Half(p) == [a |-> ExactDiv(p.a, 2), b |-> ExactDiv(p.b, 2)]
\* float.is_integer() of p / q, for rational p and q
QuotientIsInteger(p, q) == p.a % q.a = 0
Sqrt2 == [a |-> 0, b |-> Scale]
IntOf(p) == ExactDiv(p.a, Scale)
Zero == Num(0)

(***************************************************************************)
(* Tools                                                                   *)
(***************************************************************************)
\* np.cos / np.sin of an angle in degrees, for multiples of 45 degrees
cosd(angle) ==
    LET d == IntOf(angle) % 360
    IN  CASE d = 0 -> Num(1)
          [] d = 45 \/ d = 315 -> Half(Sqrt2)
          [] d = 90 \/ d = 270 -> Zero
          [] d = 135 \/ d = 225 -> Neg(Half(Sqrt2))
          [] d = 180 -> Num(-1)

sind(angle) ==
    LET d == IntOf(angle) % 360
    IN  CASE d = 0 \/ d = 180 -> Zero
          [] d = 45 \/ d = 135 -> Half(Sqrt2)
          [] d = 90 -> Num(1)
          [] d = 225 \/ d = 315 -> Neg(Half(Sqrt2))
          [] d = 270 -> Num(-1)

rotate_point(point, angle, origin) ==
    LET x_rot == Add(Sub(Mul(Sub(point[1], origin[1]), cosd(angle)),
                         Mul(Sub(point[2], origin[2]), sind(angle))),
                     origin[1])
        y_rot == Add(Add(Mul(Sub(point[1], origin[1]), sind(angle)),
                         Mul(Sub(point[2], origin[2]), cosd(angle))),
                     origin[2])
    IN  <<x_rot, y_rot>>

get_midpoint(line) ==
    LET point1 == line[1]
        point2 == line[2]
    IN  <<Half(Add(point1[1], point2[1])), Half(Add(point1[2], point2[2]))>>

\* get_label_coords offsetting by size + labelpad, the size not halved
get_label_coords_unhalved(label_pos, x, y, size, labelpad) ==
    LET offset == Add(size, labelpad)
    IN  CASE label_pos = "top" -> [err |-> "ok", x |-> x, y |-> Add(y, offset)]
          [] label_pos = "bottom" -> [err |-> "ok", x |-> x, y |-> Sub(y, offset)]
          [] label_pos = "left" -> [err |-> "ok", x |-> Sub(x, offset), y |-> y]
          [] label_pos = "right" -> [err |-> "ok", x |-> Add(x, offset), y |-> y]
          [] label_pos = "centre" -> [err |-> "ok", x |-> x, y |-> y]
          [] OTHER -> [err |-> "ValueError", x |-> None, y |-> None]

\* get_label_coords with a final else that places the label at the centre
get_label_coords_lenient(label_pos, x, y, size, labelpad) ==
    LET offset == Add(Half(size), labelpad)
    IN  CASE label_pos = "top" -> [err |-> "ok", x |-> x, y |-> Add(y, offset)]
          [] label_pos = "bottom" -> [err |-> "ok", x |-> x, y |-> Sub(y, offset)]
          [] label_pos = "left" -> [err |-> "ok", x |-> Sub(x, offset), y |-> y]
          [] label_pos = "right" -> [err |-> "ok", x |-> Add(x, offset), y |-> y]
          [] OTHER -> [err |-> "ok", x |-> x, y |-> y]

\* the result of get_label_coords: the coordinates, or the ValueError raised
get_label_coords(label_pos, x, y, size, labelpad) ==
    LET offset == Add(Half(size), labelpad)
    IN  CASE label_pos = "top" -> [err |-> "ok", x |-> x, y |-> Add(y, offset)]
          [] label_pos = "bottom" -> [err |-> "ok", x |-> x, y |-> Sub(y, offset)]
          [] label_pos = "left" -> [err |-> "ok", x |-> Sub(x, offset), y |-> y]
          [] label_pos = "right" -> [err |-> "ok", x |-> Add(x, offset), y |-> y]
          [] label_pos = "centre" -> [err |-> "ok", x |-> x, y |-> y]
          [] OTHER -> [err |-> "ValueError", x |-> None, y |-> None]

(***************************************************************************)
(* OpticalElement                                                          *)
(***************************************************************************)
allowed_types == {"mirror", "concave_lens", "convex_lens",
                  "transmissive_plate", "transmissive_cube",
                  "beamsplitter_cube", "generic_box",
                  "box_source", "point_source",
                  "beam_dump", "generic_circle",
                  "concave_mirror"}

allowed_modes == {"r", "t"}

allowed_sides == {"top", "bottom", "left", "right"}

fontparams == [fontsize |-> 8, fontweight |-> "normal", ha |-> "center",
               va |-> "center", rotation |-> "horizontal"]

\* OpticalElement.__init__ without its element_type check
OpticalElement_any_type(x, y, mode, angle, element_type) ==
    IF mode \notin allowed_modes
    THEN [err |-> "ValueError", ret |-> None]
    ELSE [err |-> "ok",
          ret |-> [x |-> x, y |-> y, mode |-> mode, angle |-> angle]]

\* OpticalElement.__init__: the object built, or the ValueError raised
OpticalElement(x, y, mode, angle, element_type) ==
    IF mode \notin allowed_modes
    THEN [err |-> "ValueError", ret |-> None]
    ELSE IF element_type \notin allowed_types
    THEN [err |-> "ValueError", ret |-> None]
    ELSE [err |-> "ok",
          ret |-> [x |-> x, y |-> y, mode |-> mode, angle |-> angle]]


(***************************************************************************)
(* The canvas.  Each primitive records the arguments of the matplotlib     *)
(* call that made it; a keyword that the call leaves out is None (NoneStr  *)
(* for the line style, whose values are strings).                          *)
(***************************************************************************)
Line2D(xs, ys, color, lw, ls, zorder, visible) ==
    [kind |-> "line", xs |-> xs, ys |-> ys, color |-> color, lw |-> lw,
     ls |-> ls, zorder |-> zorder, visible |-> visible]

Arc(xy, width, height, angle, theta1, theta2, color) ==
    [kind |-> "arc", xy |-> xy, width |-> width, height |-> height,
     angle |-> angle, theta1 |-> theta1, theta2 |-> theta2, color |-> color]

Circle(xy, radius, edgecolor, fill, facecolor) ==
    [kind |-> "circle", xy |-> xy, radius |-> radius, edgecolor |-> edgecolor,
     fill |-> fill, facecolor |-> facecolor]

Fill(l1, l2, l3, color, zorder) ==
    [kind |-> "fill", l1 |-> l1, l2 |-> l2, l3 |-> l3, color |-> color,
     zorder |-> zorder]

Text(x, y, s, color, fontsize) ==
    [kind |-> "text", x |-> x, y |-> y, s |-> s, color |-> color,
     fontsize |-> fontsize]

\* plt.text(x, y, str(line), ...): a grid coordinate label
TickText(x, y, line) == [kind |-> "text", x |-> x, y |-> y, str |-> line]

(***************************************************************************)
(* OpticalTable.__init__: the canvas and aspect ratio after the call, and  *)
(* the AssertionError raised when the grid does not fit.  The four edges   *)
(* are plotted before the grid is looked at.                               *)
(***************************************************************************)
TableEdges(length, width, edgecolour, show_edge) ==
    LET hl == Half(length)
        hw == Half(width)
    IN  << Line2D(<<Neg(hl), hl>>, <<hw, hw>>, edgecolour, None, NoneStr, None, show_edge),
           Line2D(<<Neg(hl), hl>>, <<Neg(hw), Neg(hw)>>, edgecolour, None, NoneStr, None, show_edge),
           Line2D(<<hl, hl>>, <<Neg(hw), hw>>, edgecolour, None, NoneStr, None, show_edge),
           Line2D(<<Neg(hl), Neg(hl)>>, <<Neg(hw), hw>>, edgecolour, None, NoneStr, None, show_edge) >>

\* int(N_lines + 1) for N_lines = extent/grid_spacing: int() truncates
grid_count(extent, grid_spacing) == (extent.a \div grid_spacing.a) + 1

\* GridLines over range(int(N_lines)): the line on the far edge is left out
GridLines_open(extent, grid_spacing) ==
    [i \in 1 .. grid_count(extent, grid_spacing) - 1 |->
        Add(Neg(Half(extent)), Mul(Num(i - 1), grid_spacing))]

\* [(-extent/2) + (n*grid_spacing) for n in range(int(N_lines + 1))]
GridLines(extent, grid_spacing) ==
    [i \in 1 .. grid_count(extent, grid_spacing) |->
        Add(Neg(Half(extent)), Mul(Num(i - 1), grid_spacing))]

TableGrid(length, width, grid_spacing, gridcolour, show_labels) ==
    LET hl == Half(length)
        hw == Half(width)
        x_lines == GridLines(length, grid_spacing)
        y_lines == GridLines(width, grid_spacing)
        vline(line) == Line2D(<<line, line>>, <<Neg(hw), hw>>, gridcolour,
                              Frac(1, 2), NoneStr, None, TRUE)
        hline(line) == Line2D(<<Neg(hl), hl>>, <<line, line>>, gridcolour,
                              Frac(1, 2), NoneStr, None, TRUE)
        xtext(line) == TickText(line, Sub(Neg(hw), Num(1)), line)
        ytext(line) == TickText(Sub(Neg(hl), Num(1)), line, line)
    IN  [i \in 1 .. Len(x_lines) |-> vline(x_lines[i])]
        \o [i \in 1 .. Len(y_lines) |-> hline(y_lines[i])]
        \o (IF show_labels
            THEN [i \in 1 .. Len(x_lines) |-> xtext(x_lines[i])]
                 \o [i \in 1 .. Len(y_lines) |-> ytext(y_lines[i])]
            ELSE <<>>)

\* OpticalTable.__init__ asserting that the grid fits the length only
OpticalTable_length_only(a) ==
    LET edges == TableEdges(a.length, a.width, a.edgecolour, a.show_edge)
    IN  IF a.show_grid /\ ~QuotientIsInteger(a.length, a.grid_spacing)
        THEN [err |-> "AssertionError", ax |-> edges, aspect_ratio |-> None]
        ELSE [err |-> "ok",
              ax |-> edges \o (IF a.show_grid
                               THEN TableGrid(a.length, a.width, a.grid_spacing,
                                              a.gridcolour, a.show_labels)
                               ELSE <<>>),
              aspect_ratio |-> Div(a.length, a.width)]

OpticalTable(a) ==
    LET edges == TableEdges(a.length, a.width, a.edgecolour, a.show_edge)
    IN  IF a.show_grid /\ ~QuotientIsInteger(a.length, a.grid_spacing)
        THEN [err |-> "AssertionError", ax |-> edges, aspect_ratio |-> None]
        ELSE IF a.show_grid /\ ~QuotientIsInteger(a.width, a.grid_spacing)
        THEN [err |-> "AssertionError", ax |-> edges, aspect_ratio |-> None]
        ELSE [err |-> "ok",
              ax |-> edges \o (IF a.show_grid
                               THEN TableGrid(a.length, a.width, a.grid_spacing,
                                              a.gridcolour, a.show_labels)
                               ELSE <<>>),
              aspect_ratio |-> Div(a.length, a.width)]

(***************************************************************************)
(* OpticalTable methods.  self is [ax, aspect_ratio]; a method returns the *)
(* canvas after the call (ax), the exception it raised (err, "ok" when     *)
(* none), the value returned (ret) and the element_type it handed to       *)
(* OpticalElement (etype).  lab holds the label keywords: label,           *)
(* label_pos, labelpad, textcolour, fontsize.  A method's local values are *)
(* the parameters of the operator that models the statements after them.   *)
(***************************************************************************)
DefaultZorder == 2
DumpZorder == 10

On(self, a) == [self EXCEPT !.ax = a]

Raised(err, a) == [err |-> err, ax |-> a, ret |-> None, etype |-> NoneStr]

\* return OpticalElement(x, y, mode, angle, element_type)
Return(a, x, y, mode, angle, element_type) ==
    [err |-> OpticalElement(x, y, mode, angle, element_type).err,
     ax |-> a,
     ret |-> OpticalElement(x, y, mode, angle, element_type).ret,
     etype |-> element_type]

\* the (x1, x2, y1, y2) that angled_line computes
angled_line_coords(self, x, y, size, angle) ==
    LET dX == Mul(Mul(Half(size), cosd(angle)), self.aspect_ratio)
        dY == Mul(Mul(Half(size), sind(angle)), self.aspect_ratio)
    IN  <<Sub(x, dX), Add(x, dX), Sub(y, dY), Add(y, dY)>>

\* self.ax.plot([x-dX, x+dX], [y-dY, y+dY], color=colour)
coords_line(c, colour) ==
    Line2D(<<c[1], c[2]>>, <<c[3], c[4]>>, colour, None, NoneStr, None, TRUE)

\* angled_line putting its line in the place of the primitive drawn last
angled_line_over(self, x, y, size, angle, colour, show) ==
    IF show
    THEN [self.ax EXCEPT ![Len(self.ax)] =
              coords_line(angled_line_coords(self, x, y, size, angle), colour)]
    ELSE self.ax

\* the canvas after angled_line
angled_line(self, x, y, size, angle, colour, show) ==
    IF show
    THEN Append(self.ax, coords_line(angled_line_coords(self, x, y, size, angle), colour))
    ELSE self.ax

\* axis.text(label_x, label_y, label, ...), or the error of get_label_coords
label_text(self, c, label, textcolour, fontsize) ==
    IF c.err # "ok"
    THEN [err |-> c.err, ax |-> self.ax]
    ELSE [err |-> "ok", ax |-> Append(self.ax, Text(c.x, c.y, label, textcolour, fontsize))]

\* set_label working out the label coordinates before it looks at the label
set_label_strict(self, x, y, size, label, label_pos, labelpad, textcolour, fontsize) ==
    IF label # NoneStr \/ get_label_coords(label_pos, x, y, size, labelpad).err # "ok"
    THEN label_text(self, get_label_coords(label_pos, x, y, size, labelpad),
                    label, textcolour, fontsize)
    ELSE [err |-> "ok", ax |-> self.ax]

set_label(self, x, y, size, label, label_pos, labelpad, textcolour, fontsize) ==
    IF label # NoneStr
    THEN label_text(self, get_label_coords(label_pos, x, y, size, labelpad),
                    label, textcolour, fontsize)
    ELSE [err |-> "ok", ax |-> self.ax]

\* set_label with the method's label keywords
label_of(self, x, y, size, lab) ==
    set_label(self, x, y, size, lab.label, lab.label_pos, lab.labelpad,
              lab.textcolour, lab.fontsize)

\* set_label without the fontsize keyword: the default font size
label_default_font(self, x, y, size, lab) ==
    set_label(self, x, y, size, lab.label, lab.label_pos, lab.labelpad,
              lab.textcolour, fontparams.fontsize)

\* what follows a method's set_label call l: the error goes to the caller,
\* else the patches in after are added and the element is returned
Labelled(l, after, x, y, mode, angle, element_type) ==
    IF l.err # "ok"
    THEN Raised(l.err, l.ax)
    ELSE Return(l.ax \o after, x, y, mode, angle, element_type)

mirror(self, x, y, size, angle, colour, lab) ==
    Labelled(label_of(On(self, angled_line(self, x, y, size, angle, colour, TRUE)),
                      x, y, size, lab),
             <<>>, x, y, "r", angle, "mirror")

convex_lens_arc(x, y, size_arc, lens_factor, angle, colour) ==
    Arc(<<x, y>>, size_arc, Div(size_arc, lens_factor), angle, 0, 180, colour)

convex_lens(self, x, y, size, angle, colour, lens_factor, lab) ==
    Labelled(label_of(On(self, angled_line(self, x, y, size, angle, colour, TRUE)),
                      x, y, size, lab),
             <<convex_lens_arc(x, y, Mul(self.aspect_ratio, size), lens_factor,
                               angle, colour)>>,
             x, y, "t", angle, "concave_lens")

\* the Arc of concave_mirror centred on (x, y) itself
concave_mirror_arc_centred(x, y, size_width, size_height, angle, colour, edge_point_rot) ==
    Arc(<<x, y>>, size_width, size_height, angle, 0, 180, colour)

\* the Arc of concave_mirror, moved back from (x, y) by the rotated offset
concave_mirror_arc(x, y, size_width, size_height, angle, colour, edge_point_rot) ==
    Arc(<<Sub(x, edge_point_rot[1]), Sub(y, edge_point_rot[2])>>,
        size_width, size_height, angle, 0, 180, colour)

\* concave_mirror returning a transmissive handle, like the lenses
concave_mirror_sized_transmissive(self, x, y, size, angle, colour, lab, size_width, size_height) ==
    Labelled(label_default_font(
                 On(self, Append(self.ax,
                     concave_mirror_arc(x, y, size_width, size_height, angle, colour,
                         rotate_point(<<Zero, Half(size_height)>>, angle,
                                      <<Zero, Zero>>)))),
                 x, y, size, lab),
             <<>>, x, y, "t", angle, "concave_mirror")

concave_mirror_sized(self, x, y, size, angle, colour, lab, size_width, size_height) ==
    Labelled(label_default_font(
                 On(self, Append(self.ax,
                     concave_mirror_arc(x, y, size_width, size_height, angle, colour,
                         rotate_point(<<Zero, Half(size_height)>>, angle,
                                      <<Zero, Zero>>)))),
                 x, y, size, lab),
             <<>>, x, y, "r", angle, "concave_mirror")

concave_mirror(self, x, y, size, angle, colour, lens_factor, lab) ==
    concave_mirror_sized(self, x, y, size, angle, colour, lab,
                         Mul(size, self.aspect_ratio),
                         Mul(Mul(size, self.aspect_ratio), lens_factor))

\* the two ax.plot calls that join the ends of the two faces
connectors(coords1, coords2, colour, zorder) ==
    << Line2D(<<coords1[1], coords2[1]>>, <<coords1[3], coords2[3]>>,
              colour, None, NoneStr, zorder, TRUE),
       Line2D(<<coords1[2], coords2[2]>>, <<coords1[4], coords2[4]>>,
              colour, None, NoneStr, zorder, TRUE) >>

concave_lens_arc(x, y, offset_x, offset_y, size_arc, lens_factor, angle, colour) ==
    Arc(<<Sub(x, offset_x), Add(y, offset_y)>>, size_arc,
        Div(size_arc, lens_factor), angle, 180, 360, colour)

concave_lens_at(self, x, y, size, angle, colour, lens_factor, lab, offset_x, offset_y) ==
    Labelled(label_default_font(
                 On(self,
                    angled_line(On(self, angled_line(self, Add(x, offset_x),
                                                     Sub(y, offset_y), size, angle,
                                                     "k", TRUE)),
                                Sub(x, offset_x), Add(y, offset_y), size, angle,
                                "k", FALSE)
                    \o connectors(
                         angled_line_coords(self, Add(x, offset_x), Sub(y, offset_y),
                                            size, angle),
                         angled_line_coords(self, Sub(x, offset_x), Add(y, offset_y),
                                            size, angle),
                         colour, None)
                    \o <<concave_lens_arc(x, y, offset_x, offset_y,
                                          Mul(self.aspect_ratio, size), lens_factor,
                                          angle, colour)>>),
                 x, y, size, lab),
             <<>>, x, y, "t", angle, "convex_lens")

concave_lens(self, x, y, size, angle, colour, offset_factor, lens_factor, lab) ==
    concave_lens_at(self, x, y, size, angle, colour, lens_factor, lab,
                    Mul(Mul(offset_factor, self.aspect_ratio), sind(angle)),
                    Mul(Mul(offset_factor, self.aspect_ratio), cosd(angle)))

\* ax.fill_between(l1, l2, l3, ...) of transmissive_plate
plate_fill(coords1, coords2, fillcolour, zorder) ==
    Fill(<<coords1[1], coords1[2]>>, <<coords1[3], coords1[3]>>,
         <<coords2[3], coords2[3]>>, fillcolour, zorder)

transmissive_plate_at(self, x, y, size, angle, colour, fill, fillcolour, lab, zorder, offset_x, offset_y) ==
    Labelled(label_of(
                 On(self,
                    angled_line(On(self, angled_line(self, Add(x, offset_x),
                                                     Sub(y, offset_y), size, angle,
                                                     "k", TRUE)),
                                Sub(x, offset_x), Add(y, offset_y), size, angle,
                                "k", TRUE)
                    \o connectors(
                         angled_line_coords(self, Add(x, offset_x), Sub(y, offset_y),
                                            size, angle),
                         angled_line_coords(self, Sub(x, offset_x), Add(y, offset_y),
                                            size, angle),
                         colour, zorder)
                    \o (IF fill
                        THEN <<plate_fill(
                                 angled_line_coords(self, Add(x, offset_x),
                                                    Sub(y, offset_y), size, angle),
                                 angled_line_coords(self, Sub(x, offset_x),
                                                    Add(y, offset_y), size, angle),
                                 fillcolour, zorder)>>
                        ELSE <<>>)),
                 x, y, size, lab),
             <<>>, x, y, "t", angle, "transmissive_plate")

transmissive_plate(self, x, y, size, angle, colour, offset_factor, fill, fillcolour, lab, zorder) ==
    transmissive_plate_at(self, x, y, size, angle, colour, fill, fillcolour, lab, zorder,
                          Mul(Mul(offset_factor, self.aspect_ratio), sind(angle)),
                          Mul(Mul(offset_factor, self.aspect_ratio), cosd(angle)))

\* the label keywords of a delegated call that passes none of them
NoLabel == [label |-> NoneStr, label_pos |-> "top", labelpad |-> Frac(1, 4),
            textcolour |-> "k", fontsize |-> fontparams.fontsize]

\* what a method does after the call r that it delegates its drawing to
Delegated(r, self, x, y, size, lab, mode, angle, element_type) ==
    IF r.err # "ok"
    THEN Raised(r.err, r.ax)
    ELSE Labelled(label_of(On(self, r.ax), x, y, size, lab),
                  <<>>, x, y, mode, angle, element_type)

\* transmissive_cube handing its label on to the plate it draws as well
transmissive_cube_relabelled(self, x, y, size, angle, colour, lab) ==
    Delegated(transmissive_plate(self, x, y, size, angle, colour, Half(size), FALSE,
                                 "k", lab, Num(DefaultZorder)),
              self, x, y, size, lab, "t", angle, "transmissive_cube")

transmissive_cube(self, x, y, size, angle, colour, lab) ==
    Delegated(transmissive_plate(self, x, y, size, angle, colour, Half(size), FALSE,
                                 "k", NoLabel, Num(DefaultZorder)),
              self, x, y, size, lab, "t", angle, "transmissive_cube")

\* beamsplitter_diagonal with the two directions exchanged
beamsplitter_diagonal_swapped(c, self, x, y, size, angle, direction) ==
    IF c.err # "ok" THEN c
    ELSE IF direction = "R"
    THEN [c EXCEPT !.ax = angled_line(On(self, c.ax), x, y, Mul(size, Sqrt2),
                                      Add(angle, Num(45)), "k", TRUE)]
    ELSE IF direction = "L"
    THEN [c EXCEPT !.ax = angled_line(On(self, c.ax), x, y, Mul(size, Sqrt2),
                                      Sub(angle, Num(45)), "k", TRUE)]
    ELSE c

\* the diagonal that beamsplitter_cube draws over the cube c
beamsplitter_diagonal(c, self, x, y, size, angle, direction) ==
    IF c.err # "ok" THEN c
    ELSE IF direction = "L"
    THEN [c EXCEPT !.ax = angled_line(On(self, c.ax), x, y, Mul(size, Sqrt2),
                                      Add(angle, Num(45)), "k", TRUE)]
    ELSE IF direction = "R"
    THEN [c EXCEPT !.ax = angled_line(On(self, c.ax), x, y, Mul(size, Sqrt2),
                                      Sub(angle, Num(45)), "k", TRUE)]
    ELSE c

\* beamsplitter_cube looking at direction only after the cube is drawn
beamsplitter_cube_late(self, x, y, size, angle, direction, colour, lab) ==
    IF direction \notin {"L", "R"}
    THEN Raised("ValueError",
                transmissive_cube(self, x, y, size, angle, colour, NoLabel).ax)
    ELSE Delegated(beamsplitter_diagonal(
                       transmissive_cube(self, x, y, size, angle, colour, NoLabel),
                       self, x, y, size, angle, direction),
                   self, x, y, size, lab, "t", angle, "beamsplitter_cube")

beamsplitter_cube(self, x, y, size, angle, direction, colour, lab) ==
    IF direction \notin {"L", "R"}
    THEN Raised("ValueError", self.ax)
    ELSE Delegated(beamsplitter_diagonal(
                       transmissive_cube(self, x, y, size, angle, colour, NoLabel),
                       self, x, y, size, angle, direction),
                   self, x, y, size, lab, "t", angle, "beamsplitter_cube")

\* the rotated corners that box computes, anticlockwise from the bottom left
\* box_corners listing the corners clockwise from the bottom left
box_corners_clockwise(x, y, size_x, size_y, angle) ==
    LET offset_x == Half(size_x)
        offset_y == Half(size_y)
    IN  << rotate_point(<<Sub(x, offset_x), Sub(y, offset_y)>>, angle, <<x, y>>),
           rotate_point(<<Sub(x, offset_x), Add(y, offset_y)>>, angle, <<x, y>>),
           rotate_point(<<Add(x, offset_x), Add(y, offset_y)>>, angle, <<x, y>>),
           rotate_point(<<Add(x, offset_x), Sub(y, offset_y)>>, angle, <<x, y>>) >>

box_corners(x, y, size_x, size_y, angle) ==
    LET offset_x == Half(size_x)
        offset_y == Half(size_y)
    IN  << rotate_point(<<Sub(x, offset_x), Sub(y, offset_y)>>, angle, <<x, y>>),
           rotate_point(<<Add(x, offset_x), Sub(y, offset_y)>>, angle, <<x, y>>),
           rotate_point(<<Add(x, offset_x), Add(y, offset_y)>>, angle, <<x, y>>),
           rotate_point(<<Sub(x, offset_x), Add(y, offset_y)>>, angle, <<x, y>>) >>

box_edge(p1, p2, colour, linestyle) ==
    Line2D(<<p1[1], p2[1]>>, <<p1[2], p2[2]>>, colour, None, linestyle, None, TRUE)

\* the four ax.plot calls of box, the last one closing the box
box_edges(corners_rot, colour, linestyle) ==
    << box_edge(corners_rot[1], corners_rot[2], colour, linestyle),
       box_edge(corners_rot[2], corners_rot[3], colour, linestyle),
       box_edge(corners_rot[3], corners_rot[4], colour, linestyle),
       box_edge(corners_rot[4], corners_rot[1], colour, linestyle) >>

box_drawn(self, x, y, angle, colour, linestyle, standalone, lab, corners_rot) ==
    IF standalone
    THEN Labelled(label_default_font(
                      On(self, self.ax \o box_edges(corners_rot, colour, linestyle)),
                      x, y, Zero, lab),
                  <<>>, x, y, "t", angle, "generic_box")
    ELSE [err |-> "ok", ax |-> self.ax \o box_edges(corners_rot, colour, linestyle),
          ret |-> corners_rot, etype |-> NoneStr]

box(self, x, y, size_x, size_y, angle, colour, linestyle, standalone, lab) ==
    box_drawn(self, x, y, angle, colour, linestyle, standalone, lab,
              box_corners(x, y, size_x, size_y, angle))

\* box_side with the top and the bottom side exchanged
box_side_flipped(corners, output_side) ==
    CASE output_side = "top" -> <<corners[1], corners[2]>>
      [] output_side = "bottom" -> <<corners[3], corners[4]>>
      [] output_side = "left" -> <<corners[1], corners[4]>>
      [] output_side = "right" -> <<corners[2], corners[3]>>

\* the side of the box that output_side names
box_side(corners, output_side) ==
    CASE output_side = "top" -> <<corners[3], corners[4]>>
      [] output_side = "bottom" -> <<corners[1], corners[2]>>
      [] output_side = "left" -> <<corners[1], corners[4]>>
      [] output_side = "right" -> <<corners[2], corners[3]>>

box_source_from(b, self, x, y, angle, lab, output_point) ==
    Labelled(label_of(On(self, b.ax), x, y, Zero, lab),
             <<>>, output_point[1], output_point[2], "t", angle, "box_source")

box_source_of(b, self, x, y, angle, output_side, lab) ==
    box_source_from(b, self, x, y, angle, lab,
                    get_midpoint(box_side(b.ret, output_side)))

\* box_source looking at output_side only after the box is drawn
box_source_late(self, x, y, size_x, size_y, angle, output_side, colour, lab) ==
    IF output_side \notin allowed_sides
    THEN Raised("ValueError",
                box(self, x, y, size_x, size_y, angle, "k", "-", FALSE, NoLabel).ax)
    ELSE box_source_of(box(self, x, y, size_x, size_y, angle, "k", "-", FALSE, NoLabel),
                       self, x, y, angle, output_side, lab)

box_source(self, x, y, size_x, size_y, angle, output_side, colour, lab) ==
    IF output_side \notin allowed_sides
    THEN Raised("ValueError", self.ax)
    ELSE box_source_of(box(self, x, y, size_x, size_y, angle, "k", "-", FALSE, NoLabel),
                       self, x, y, angle, output_side, lab)

\* point_source marking the source on the table with a dot
point_source_visible(self, x, y, lab) ==
    IF lab.label # NoneStr /\ lab.label # ""
    THEN Raised("TypeError", self.ax)
    ELSE Return(Append(self.ax, Circle(<<x, y>>, Frac(1, 10), "k", TRUE, "k")),
                x, y, "t", None, "point_source")

\* With a label, point_source calls set_label without the size argument: the
\* label lands in size, and get_label_coords fails on size*0.5 with a TypeError.
point_source(self, x, y, lab) ==
    IF lab.label # NoneStr /\ lab.label # ""
    THEN Raised("TypeError", self.ax)
    ELSE Return(self.ax, x, y, "t", None, "point_source")

\* beam_dump handing its angle on to the handle
beam_dump_oriented(self, x, y, size, angle, colour, fillcolour, lab) ==
    Delegated(transmissive_plate(self, x, y, size, angle, colour, Frac(1, 20), TRUE,
                                 fillcolour, NoLabel, Num(DumpZorder)),
              self, x, y, size, lab, "t", angle, "beam_dump")

beam_dump(self, x, y, size, angle, colour, fillcolour, lab) ==
    Delegated(transmissive_plate(self, x, y, size, angle, colour, Frac(1, 20), TRUE,
                                 fillcolour, NoLabel, Num(DumpZorder)),
              self, x, y, size, lab, "t", None, "beam_dump")

generic_circle(self, x, y, size, colour, fill, fillcolour, lab) ==
    Labelled(label_of(self, x, y, size, lab),
             <<Circle(<<x, y>>, size, colour, fill, fillcolour)>>,
             x, y, "t", None, "generic_circle")

(***************************************************************************)
(* LaserBeam                                                               *)
(***************************************************************************)
LaserBeam(colour, width, style, divergent, divergence_angle) ==
    [colour |-> colour, width |-> width, style |-> style,
     divergent |-> divergent, div_angle |-> divergence_angle]

\* beam_segments stopping one handle early: the last segment is not plotted
beam_segments_short(self, optics) ==
    [i \in 1 .. Len(optics) - 2 |->
        Line2D(<<optics[i].x, optics[i + 1].x>>, <<optics[i].y, optics[i + 1].y>>,
               self.colour, self.width, self.style, None, TRUE)]

\* the segments LaserBeam.draw plots for the list optics
beam_segments(self, optics) ==
    [i \in 1 .. Len(optics) - 1 |->
        Line2D(<<optics[i].x, optics[i + 1].x>>, <<optics[i].y, optics[i + 1].y>>,
               self.colour, self.width, self.style, None, TRUE)]

\* draw plotting the segments whatever self.divergent says
draw_any_beam(self, table, optics) ==
    table.ax \o beam_segments(self, optics)

\* draw clearing the axes before it plots
draw_cleared(self, table, optics) ==
    IF self.divergent
    THEN table.ax
    ELSE beam_segments(self, optics)

\* the canvas after LaserBeam.draw(table, optics)
draw(self, table, optics) ==
    IF self.divergent
    THEN table.ax
    ELSE table.ax \o beam_segments(self, optics)

(***************************************************************************)
(* The caller's inputs                                                     *)
(***************************************************************************)
MaxPlace == 1
MaxCalls == 3
MaxOptics == 3

TableArgs ==
    [length : {Num(4), Num(10)}, width : {Num(4), Num(10)},
     size_factor : {Num(10)}, edgecolour : {"k"},
     grid_spacing : {Num(1), Num(2), Num(3), Num(4), Num(5)},
     gridcolour : {"gray"}, show_edge : BOOLEAN, show_grid : BOOLEAN,
     show_labels : BOOLEAN]

\* the tables the placement calls are made on: square, and 10 by 4
PlainTables ==
    {a \in TableArgs : /\ a.width = Num(4) /\ a.grid_spacing = Num(1)
                       /\ a.show_edge /\ ~a.show_grid /\ ~a.show_labels}

Origin == <<Num(0), Num(0)>>
Positions == { <<Num(3), Num(1)>> }
Sizes == {Num(2)}
Angles == {Num(0), Num(45), Num(90)}
Colours == {"b"}
LabelArgs ==
    [label : {NoneStr, "M1"}, label_pos : {"top", "diagonal"},
     labelpad : {Frac(1, 4)}, textcolour : {"k"}, fontsize : {fontparams.fontsize}]
Directions == {"L", "R", "X"}
OutputSides == allowed_sides \cup {"front"}
Modes == allowed_modes \cup {"x"}
ElementTypes == allowed_types \cup {NoneStr, "lens"}
HandleAngles == {None, Num(45)}

BeamPositions == { <<Num(0), Num(0)>>, <<Num(5), Num(0)>>, <<Num(5), Num(5)>> }
Beams == { LaserBeam("r", Num(1), "-", FALSE, None),
           LaserBeam("b", Num(2), "--", FALSE, None),
           LaserBeam("r", Num(1), "-", TRUE, Num(5)) }

\* the lists of at most MaxOptics of the n handles the caller holds, as indices
OpticsLists(n) == UNION { [1 .. k -> 1 .. n] : k \in 0 .. MaxOptics }

\* the handles that the indices idx name
Optics(idx) == [i \in 1 .. Len(idx) |-> handles[idx[i]]]

(***************************************************************************)
(* The state machine                                                       *)
(***************************************************************************)
NoCall == [op |-> "none", args |-> None, err |-> "ok", ret |-> None,
           etype |-> NoneStr, pre |-> <<>>]

Table == [ax |-> ax, aspect_ratio |-> aspect_ratio]

Init ==
    /\ tstate = "absent"
    /\ aspect_ratio = None
    /\ ax = <<>>
    /\ handles = <<>>
    /\ beam = None
    /\ last = NoCall
    /\ calls = 0

\* table = OpticalTable(...)
Construct(a) ==
    LET r == OpticalTable(a)
    IN  /\ tstate = "absent"
        /\ tstate' = (IF r.err = "ok" THEN "ok" ELSE "failed")
        /\ aspect_ratio' = r.aspect_ratio
        /\ ax' = r.ax
        /\ last' = [op |-> "OpticalTable", args |-> a, err |-> r.err,
                    ret |-> None, etype |-> NoneStr, pre |-> ax]
        /\ UNCHANGED <<handles, beam, calls>>

NewTable == \E a \in TableArgs : Construct(a)

\* a table built with one of PlainTables
InitTable ==
    \E a \in PlainTables :
        LET r == OpticalTable(a)
        IN  /\ tstate = "ok"
            /\ aspect_ratio = r.aspect_ratio
            /\ ax = r.ax
            /\ handles = <<>>
            /\ beam = None
            /\ last = [op |-> "OpticalTable", args |-> a, err |-> r.err,
                       ret |-> None, etype |-> NoneStr, pre |-> <<>>]
            /\ calls = 0

\* a table that keeps one element per anchor: a placement rebinds the
\* handles already returned for its coordinates
Call_rebinding(op, args, res) ==
    \E r \in {res} :
    /\ tstate = "ok"
    /\ ax' = r.ax
    /\ handles' = (IF r.err = "ok" /\ r.etype # NoneStr
                   THEN Append([i \in 1 .. Len(handles) |->
                                   IF handles[i].x = r.ret.x /\ handles[i].y = r.ret.y
                                   THEN r.ret ELSE handles[i]],
                               r.ret)
                   ELSE handles)
    /\ last' = [op |-> op, args |-> args, err |-> r.err, ret |-> r.ret,
                etype |-> r.etype, pre |-> ax]
    /\ calls' = calls + 1
    /\ UNCHANGED <<tstate, aspect_ratio, beam>>

\* handle = table.op(...): the caller keeps the handle returned
Call(op, args, res) ==
    \E r \in {res} :
    /\ tstate = "ok"
    /\ ax' = r.ax
    /\ handles' = (IF r.err = "ok" /\ r.etype # NoneStr
                   THEN Append(handles, r.ret) ELSE handles)
    /\ last' = [op |-> op, args |-> args, err |-> r.err, ret |-> r.ret,
                etype |-> r.etype, pre |-> ax]
    /\ calls' = calls + 1
    /\ UNCHANGED <<tstate, aspect_ratio, beam>>

Mirror ==
    /\ calls < MaxPlace
    /\ \E p \in Positions, size \in Sizes, angle \in Angles, lab \in LabelArgs :
        Call("mirror",
             [x |-> p[1], y |-> p[2], size |-> size, angle |-> angle, lab |-> lab],
             mirror(Table, p[1], p[2], size, angle, "k", lab))

ConvexLens ==
    /\ calls < MaxPlace
    /\ \E p \in Positions, size \in Sizes, angle \in Angles, lab \in LabelArgs :
        Call("convex_lens",
             [x |-> p[1], y |-> p[2], size |-> size, angle |-> angle, lab |-> lab],
             convex_lens(Table, p[1], p[2], size, angle, "k", Num(2), lab))

ConcaveMirror ==
    /\ calls < MaxPlace
    /\ \E p \in Positions, size \in Sizes, angle \in Angles, lab \in LabelArgs,
       lens_factor \in {Num(1), Num(2)} :
        Call("concave_mirror",
             [x |-> p[1], y |-> p[2], size |-> size, angle |-> angle, lab |-> lab,
              lens_factor |-> lens_factor],
             concave_mirror(Table, p[1], p[2], size, angle, "k", lens_factor, lab))

ConcaveLens ==
    /\ calls < MaxPlace
    /\ \E p \in Positions, size \in Sizes, angle \in Angles, lab \in LabelArgs :
        Call("concave_lens",
             [x |-> p[1], y |-> p[2], size |-> size, angle |-> angle, lab |-> lab],
             concave_lens(Table, p[1], p[2], size, angle, "k", Frac(1, 20), Num(4), lab))

TransmissivePlate ==
    /\ calls < MaxPlace
    /\ \E p \in Positions, size \in Sizes, angle \in Angles, lab \in LabelArgs,
       fill \in BOOLEAN :
        Call("transmissive_plate",
             [x |-> p[1], y |-> p[2], size |-> size, angle |-> angle, lab |-> lab,
              fill |-> fill],
             transmissive_plate(Table, p[1], p[2], size, angle, "k", Frac(1, 20), fill,
                                "k", lab, Num(DefaultZorder)))

TransmissiveCube ==
    /\ calls < MaxPlace
    /\ \E p \in Positions, size \in Sizes, angle \in Angles, lab \in LabelArgs :
        Call("transmissive_cube",
             [x |-> p[1], y |-> p[2], size |-> size, angle |-> angle, lab |-> lab],
             transmissive_cube(Table, p[1], p[2], size, angle, "k", lab))

BeamsplitterCube ==
    /\ calls < MaxPlace
    /\ \E p \in Positions, size \in Sizes, angle \in Angles, lab \in LabelArgs,
       direction \in Directions :
        Call("beamsplitter_cube",
             [x |-> p[1], y |-> p[2], size |-> size, angle |-> angle, lab |-> lab,
              direction |-> direction],
             beamsplitter_cube(Table, p[1], p[2], size, angle, direction, "k", lab))

Box ==
    /\ calls < MaxPlace
    /\ \E p \in Positions, angle \in Angles, lab \in LabelArgs, standalone \in BOOLEAN :
        Call("box",
             [x |-> p[1], y |-> p[2], size_x |-> Num(4), size_y |-> Num(2),
              angle |-> angle, lab |-> lab, standalone |-> standalone],
             box(Table, p[1], p[2], Num(4), Num(2), angle, "k", "-", standalone, lab))

BoxSource ==
    /\ calls < MaxPlace
    /\ \E p \in Positions \cup {Origin}, angle \in Angles, lab \in LabelArgs,
       output_side \in OutputSides, colour \in Colours :
        Call("box_source",
             [x |-> p[1], y |-> p[2], size_x |-> Num(4), size_y |-> Num(2),
              angle |-> angle, lab |-> lab, output_side |-> output_side,
              colour |-> colour],
             box_source(Table, p[1], p[2], Num(4), Num(2), angle, output_side,
                        colour, lab))

PointSource ==
    /\ calls < MaxPlace
    /\ \E p \in Positions, lab \in LabelArgs :
        Call("point_source", [x |-> p[1], y |-> p[2], lab |-> lab],
             point_source(Table, p[1], p[2], lab))

BeamDump ==
    /\ calls < MaxPlace
    /\ \E p \in Positions, size \in Sizes, angle \in Angles, lab \in LabelArgs :
        Call("beam_dump",
             [x |-> p[1], y |-> p[2], size |-> size, angle |-> angle, lab |-> lab],
             beam_dump(Table, p[1], p[2], size, angle, "k", "k", lab))

GenericCircle ==
    /\ calls < MaxPlace
    /\ \E p \in Positions, size \in Sizes, lab \in LabelArgs, fill \in BOOLEAN :
        Call("generic_circle",
             [x |-> p[1], y |-> p[2], size |-> size, lab |-> lab, fill |-> fill],
             generic_circle(Table, p[1], p[2], size, "k", fill, "k", lab))

\* handle = OpticalElement(x, y, mode, angle, element_type), built by the caller
NewElement ==
    /\ calls < MaxPlace
    /\ \E p \in Positions, mode \in Modes, angle \in HandleAngles,
       element_type \in ElementTypes :
        LET e == OpticalElement(p[1], p[2], mode, angle, element_type)
        IN  Call("OpticalElement",
                 [x |-> p[1], y |-> p[2], mode |-> mode, angle |-> angle,
                  element_type |-> element_type],
                 [err |-> e.err, ax |-> ax, ret |-> e.ret, etype |-> element_type])

Next ==
    \/ Mirror \/ ConvexLens \/ ConcaveMirror \/ ConcaveLens
    \/ TransmissivePlate \/ TransmissiveCube \/ BeamsplitterCube
    \/ Box \/ BoxSource \/ PointSource \/ BeamDump \/ GenericCircle
    \/ NewElement

\* one call at a time on a table built with one of PlainTables
Spec == InitTable /\ [][Next]_vars

\* the construction of the table
SpecTable == Init /\ [][NewTable]_vars

(***************************************************************************)
(* Beams: the caller places elements, builds a beam and draws it through   *)
(* lists of the handles it holds.                                          *)
(***************************************************************************)
BeamMirror ==
    /\ calls < MaxCalls
    /\ \E p \in BeamPositions :
        Call("mirror",
             [x |-> p[1], y |-> p[2], size |-> Num(2), angle |-> Num(45), lab |-> NoLabel],
             mirror(Table, p[1], p[2], Num(2), Num(45), "k", NoLabel))

BeamPointSource ==
    /\ calls < MaxCalls
    /\ \E p \in BeamPositions :
        Call("point_source", [x |-> p[1], y |-> p[2], lab |-> NoLabel],
             point_source(Table, p[1], p[2], NoLabel))

\* beam = LaserBeam(...)
NewBeam ==
    \E b \in Beams :
        /\ beam = None
        /\ beam' = b
        /\ UNCHANGED <<tstate, aspect_ratio, ax, handles, last, calls>>

\* beam.draw(table, optics)
Draw ==
    \E idx \in OpticsLists(Len(handles)) :
        /\ tstate = "ok"
        /\ beam # None
        /\ calls < MaxCalls
        /\ ax' = draw(beam, Table, Optics(idx))
        /\ last' = [op |-> "draw", args |-> [optics |-> Optics(idx)], err |-> "ok",
                    ret |-> None, etype |-> NoneStr, pre |-> ax]
        /\ calls' = calls + 1
        /\ UNCHANGED <<tstate, aspect_ratio, handles, beam>>

NextBeam == BeamMirror \/ BeamPointSource \/ NewBeam \/ Draw

SpecBeam == InitTable /\ [][NextBeam]_vars

(***************************************************************************)
(* Tools.get_label_coords called on its own                                *)
(***************************************************************************)
LabelPosArgs == {"top", "bottom", "left", "right", "centre", "center", "diagonal", ""}
LabelPoints == { <<Num(0), Num(0)>>, <<Num(3), Num(1)>>, <<Num(-2), Num(5)>> }
LabelSizes == {Num(0), Num(2), Num(3)}
LabelPads == {Num(0), Frac(1, 4), Num(1)}

\* Tools.get_label_coords(label_pos, x, y, size, labelpad)
GetLabelCoords ==
    \E label_pos \in LabelPosArgs, p \in LabelPoints, size \in LabelSizes,
       labelpad \in LabelPads :
        /\ last' = [op |-> "get_label_coords",
                    args |-> [label_pos |-> label_pos, x |-> p[1], y |-> p[2],
                              size |-> size, labelpad |-> labelpad],
                    err |-> get_label_coords(label_pos, p[1], p[2], size, labelpad).err,
                    ret |-> [x |-> get_label_coords(label_pos, p[1], p[2], size, labelpad).x,
                             y |-> get_label_coords(label_pos, p[1], p[2], size, labelpad).y],
                    etype |-> NoneStr, pre |-> ax]
        /\ UNCHANGED <<tstate, aspect_ratio, ax, handles, beam, calls>>

\* calls of the Tools functions, no table needed
SpecTools == Init /\ [][GetLabelCoords]_vars

(***************************************************************************)
(* Properties of LaserBeam.draw, under SpecBeam                            *)
(***************************************************************************)
\* the primitives a call added to the canvas
Added == SubSeq(ax, Len(last.pre) + 1, Len(ax))

\* the canvas the call found is still there, in order, under what it added
KeepsCanvas == SubSeq(ax, 1, Len(last.pre)) = last.pre

\* C1: a non-divergent draw through a list of n handles adds exactly
\* max(n - 1, 0) straight segments, the i-th from the anchor of handle i to
\* the anchor of handle i + 1, and nothing else.
C1_DrawJoinsConsecutiveAnchors ==
    (last.op = "draw" /\ ~beam.divergent) =>
        LET optics == last.args.optics
            n == Len(optics)
        IN  /\ KeepsCanvas
            /\ Len(Added) = (IF n >= 1 THEN n - 1 ELSE 0)
            /\ \A i \in 1 .. n - 1 :
                /\ Added[i].kind = "line"
                /\ Added[i].xs = <<optics[i].x, optics[i + 1].x>>
                /\ Added[i].ys = <<optics[i].y, optics[i + 1].y>>

\* a non-divergent beam drawn through three handles, no two neighbours at
\* the same anchor
C1_Witness ==
    /\ last.op = "draw" /\ ~beam.divergent
    /\ Len(last.args.optics) = 3
    /\ Len(Added) = 2
    /\ \A i \in 1 .. 2 :
        <<last.args.optics[i].x, last.args.optics[i].y>>
            # <<last.args.optics[i + 1].x, last.args.optics[i + 1].y>>

\* C2: a draw of a beam built with divergent=True adds nothing: the canvas
\* after the call is the canvas before it.
C2_DivergentDrawsNothing ==
    (last.op = "draw" /\ beam.divergent) => ax = last.pre

\* a divergent beam drawn through two handles at different anchors
C2_Witness ==
    /\ last.op = "draw" /\ beam.divergent
    /\ Len(last.args.optics) >= 2
    /\ last.args.optics[1] # last.args.optics[2]

\* C3: draw only appends: the handles the caller holds (and so the list
\* passed, its length and order), the table's aspect_ratio, the beam's
\* styling and every primitive already on the canvas are unchanged by it,
\* however many times the beam is drawn.
C3_DrawOnlyAppends ==
    [][(calls' # calls /\ last'.op = "draw") =>
            /\ handles' = handles
            /\ last'.args.optics \in {Optics(idx) : idx \in OpticsLists(Len(handles))}
            /\ aspect_ratio' = aspect_ratio
            /\ tstate' = tstate
            /\ beam' = beam
            /\ Len(ax') >= Len(ax)
            /\ SubSeq(ax', 1, Len(ax)) = ax]_vars

\* the same beam drawn a second time, over the segment of its first draw
C3_Witness ==
    /\ last.op = "draw" /\ ~beam.divergent
    /\ Len(Added) >= 1
    /\ \E i \in 1 .. Len(last.pre) :
        last.pre[i].kind = "line" /\ last.pre[i].lw = beam.width

(***************************************************************************)
(* Properties of the placement calls and of OpticalElement, under Spec     *)
(***************************************************************************)
\* C4: OpticalElement(x, y, mode, angle, element_type) fails exactly when
\* mode is not 'r' or 't' or element_type is not one of the 12 allowed kinds
\* (None is not one); otherwise it builds the handle.  No handle the caller
\* holds has any other mode.
C4_ElementValidation ==
    /\ Cardinality(allowed_types) = 12
    /\ NoneStr \notin allowed_types
    /\ \A i \in 1 .. Len(handles) : handles[i].mode \in {"r", "t"}
    /\ last.op = "OpticalElement" =>
        /\ last.err \in {"ok", "ValueError"}
        /\ (last.err = "ValueError") <=>
               \/ last.args.mode \notin {"r", "t"}
               \/ last.args.element_type \notin allowed_types
        /\ last.err = "ok" =>
               /\ last.ret = [x |-> last.args.x, y |-> last.args.y,
                              mode |-> last.args.mode, angle |-> last.args.angle]
               /\ handles # <<>> /\ handles[Len(handles)] = last.ret
        /\ last.err # "ok" => last.ret = None /\ ax = last.pre

\* an element with a good mode and element_type None is refused
C4_Witness ==
    /\ last.op = "OpticalElement"
    /\ last.args.mode \in allowed_modes
    /\ last.args.element_type = NoneStr
    /\ last.err = "ValueError"
    /\ handles = <<>>

\* the placement operations that take a label
LabelOps == {"mirror", "convex_lens", "concave_lens", "concave_mirror",
             "transmissive_plate", "transmissive_cube", "beamsplitter_cube",
             "box", "box_source", "beam_dump", "generic_circle"}

LabelPositions == {"top", "bottom", "left", "right", "centre"}

\* the call was a labelling one with a label and a label_pos outside the five
BadLabelPos ==
    /\ last.op \in LabelOps
    /\ last.op = "box" => last.args.standalone
    /\ last.args.lab.label # NoneStr
    /\ last.args.lab.label_pos \notin LabelPositions

\* C5: a placement operation given a label and a label_pos outside top,
\* bottom, left, right, centre fails before it draws anything: the canvas
\* is as it was and no handle is returned.
C5_BadLabelPosDrawsNothing ==
    BadLabelPos => /\ last.err = "ValueError"
                   /\ ax = last.pre
                   /\ last.ret = None

\* C6: beamsplitter_cube with a direction other than 'L' or 'R' fails and
\* adds nothing to the canvas; with 'L' or 'R' and no label it does not fail
\* and returns a handle at (x, y).
C6_BeamsplitterDirection ==
    last.op = "beamsplitter_cube" =>
        /\ last.args.direction \notin {"L", "R"} =>
               /\ last.err = "ValueError"
               /\ ax = last.pre
               /\ last.ret = None
        /\ (last.args.direction \in {"L", "R"} /\ last.args.lab.label = NoneStr) =>
               /\ last.err = "ok"
               /\ last.ret # None
               /\ last.ret.x = last.args.x /\ last.ret.y = last.args.y
               /\ handles # <<>> /\ handles[Len(handles)] = last.ret

\* a beamsplitter cube asked for with direction 'X' and a good label
C6_Witness ==
    /\ last.op = "beamsplitter_cube"
    /\ last.args.direction = "X"
    /\ last.args.lab.label # NoneStr /\ last.args.lab.label_pos \in LabelPositions
    /\ last.err = "ValueError"

\* C7: box_source with an output_side other than top, bottom, left, right
\* fails without drawing the box: the canvas is as it was before the call.
C7_BoxSourceOutputSide ==
    (last.op = "box_source"
        /\ last.args.output_side \notin {"top", "bottom", "left", "right"}) =>
        /\ last.err = "ValueError"
        /\ ax = last.pre
        /\ last.ret = None

\* a box source asked for with output_side 'front' and a good label
C7_Witness ==
    /\ last.op = "box_source"
    /\ last.args.output_side = "front"
    /\ last.args.lab.label # NoneStr /\ last.args.lab.label_pos \in LabelPositions
    /\ last.err = "ValueError"
    /\ ax = last.pre

\* C10: concave_mirror returns a handle at (x, y), and centres its arc at
\* (x, y) minus the offset (0, height/2) rotated by angle about the origin,
\* height being the arc's height: the centre plus that offset is the anchor.
C10_ConcaveMirrorAnchor ==
    last.op = "concave_mirror" =>
        /\ Len(ax) > Len(last.pre)
        /\ Added[1].kind = "arc"
        /\ LET arc == Added[1]
               x == last.args.x
               y == last.args.y
               h2 == Half(arc.height)
               offset == <<Neg(Mul(h2, sind(last.args.angle))),
                           Mul(h2, cosd(last.args.angle))>>
           IN  /\ offset = rotate_point(<<Zero, h2>>, last.args.angle, <<Zero, Zero>>)
               /\ arc.xy = <<Sub(x, offset[1]), Sub(y, offset[2])>>
               /\ <<Add(arc.xy[1], offset[1]), Add(arc.xy[2], offset[2])>> = <<x, y>>
               /\ last.args.angle = Num(0) => arc.xy = <<x, Sub(y, h2)>>
               /\ last.args.angle = Num(90) => arc.xy = <<Add(x, h2), y>>
               /\ last.err = "ok" => last.ret.x = x /\ last.ret.y = y

\* a concave mirror at 45 degrees with lens_factor 2 on the 10 by 4 table
C10_Witness ==
    /\ last.op = "concave_mirror"
    /\ last.args.angle = Num(45)
    /\ last.args.lens_factor = Num(2)
    /\ aspect_ratio # Num(1)
    /\ last.err = "ok"
    /\ Added[1].xy # <<last.ret.x, last.ret.y>>

(***************************************************************************)
(* Properties of OpticalTable.__init__, under SpecTable                    *)
(***************************************************************************)
\* C8: with show_grid=True the construction fails exactly when grid_spacing
\* does not divide length or does not divide width.
C8_GridSpacingDividesBoth ==
    (last.op = "OpticalTable" /\ last.args.show_grid) =>
        /\ last.err \in {"ok", "AssertionError"}
        /\ (last.err = "AssertionError") <=>
               \/ IntOf(last.args.length) % IntOf(last.args.grid_spacing) # 0
               \/ IntOf(last.args.width) % IntOf(last.args.grid_spacing) # 0
        /\ (tstate = "failed") <=> (last.err = "AssertionError")

\* grid_spacing 5 divides the length 10 and not the width 4
C8_Witness ==
    /\ last.op = "OpticalTable" /\ last.args.show_grid
    /\ last.args.length = Num(10) /\ last.args.width = Num(4)
    /\ last.args.grid_spacing = Num(5)
    /\ last.err = "AssertionError"
    /\ tstate = "failed"

\* the indices of the grid lines on the canvas: the lines after the four edges
GridIndices == {i \in 5 .. Len(ax) : ax[i].kind = "line"}
VerticalGrid == {i \in GridIndices : ax[i].xs[1] = ax[i].xs[2]}
HorizontalGrid == {i \in GridIndices : ax[i].ys[1] = ax[i].ys[2]}

\* -extent/2 + n*grid_spacing for n = 0 .. extent/grid_spacing
GridCoordinates(extent, grid_spacing) ==
    {Sub(Mul(Num(n), grid_spacing), Half(extent)) :
        n \in 0 .. (IntOf(extent) \div IntOf(grid_spacing))}

\* C9: a table built with a grid has its vertical lines exactly at
\* x = -length/2 + n*grid_spacing, n = 0 .. length/grid_spacing, each from
\* -width/2 to width/2, and its horizontal lines likewise over width; with
\* length 10 and grid_spacing 2 the vertical lines are at -5, -3, -1, 1, 3, 5.
C9_GridLinePositions ==
    (last.op = "OpticalTable" /\ last.args.show_grid /\ last.err = "ok") =>
        LET length == last.args.length
            width == last.args.width
            grid_spacing == last.args.grid_spacing
        IN  /\ GridIndices = VerticalGrid \cup HorizontalGrid
            /\ {ax[i].xs[1] : i \in VerticalGrid} = GridCoordinates(length, grid_spacing)
            /\ Cardinality(VerticalGrid) = (IntOf(length) \div IntOf(grid_spacing)) + 1
            /\ \A i \in VerticalGrid :
                   ax[i].ys = <<Neg(Half(width)), Half(width)>>
            /\ {ax[i].ys[1] : i \in HorizontalGrid} = GridCoordinates(width, grid_spacing)
            /\ Cardinality(HorizontalGrid) = (IntOf(width) \div IntOf(grid_spacing)) + 1
            /\ \A i \in HorizontalGrid :
                   ax[i].xs = <<Neg(Half(length)), Half(length)>>
            /\ (length = Num(10) /\ grid_spacing = Num(2)) =>
                   {ax[i].xs[1] : i \in VerticalGrid}
                       = {Num(-5), Num(-3), Num(-1), Num(1), Num(3), Num(5)}

\* the table of length 10 with grid_spacing 2, six vertical lines on it
C9_Witness ==
    /\ last.op = "OpticalTable" /\ last.args.show_grid /\ last.err = "ok"
    /\ last.args.length = Num(10) /\ last.args.grid_spacing = Num(2)
    /\ Cardinality(VerticalGrid) = 6


(***************************************************************************)
(* Properties of box and box_source, under Spec                            *)
(***************************************************************************)
\* the displacement (dx, dy) turned anticlockwise by 0, 45 or 90 degrees
Turned(dx, dy, angle) ==
    CASE angle = Num(0) -> <<dx, dy>>
      [] angle = Num(45) -> <<Mul(Sub(dx, dy), Half(Sqrt2)), Mul(Add(dx, dy), Half(Sqrt2))>>
      [] angle = Num(90) -> <<Neg(dy), dx>>

\* the point at (dx, dy) from (x, y), turned by angle about (x, y)
TurnedAbout(x, y, dx, dy, angle) ==
    <<Add(x, Turned(dx, dy, angle)[1]), Add(y, Turned(dx, dy, angle)[2])>>

\* C11: box with standalone=False returns exactly 4 corner points: at angle
\* 0 they are (x-sx/2, y-sy/2), (x+sx/2, y-sy/2), (x+sx/2, y+sy/2),
\* (x-sx/2, y+sy/2), anticlockwise from the bottom left; at another angle
\* they are these four, in this order, each rotated by angle about (x, y).
C11_BoxCorners ==
    (last.op = "box" /\ ~last.args.standalone) =>
        LET x == last.args.x
            y == last.args.y
            hx == Half(last.args.size_x)
            hy == Half(last.args.size_y)
            angle == last.args.angle
        IN  /\ last.err = "ok"
            /\ Len(last.ret) = 4
            /\ last.ret = << TurnedAbout(x, y, Neg(hx), Neg(hy), angle),
                             TurnedAbout(x, y, hx, Neg(hy), angle),
                             TurnedAbout(x, y, hx, hy, angle),
                             TurnedAbout(x, y, Neg(hx), hy, angle) >>
            /\ angle = Num(0) =>
                   last.ret = << <<Sub(x, hx), Sub(y, hy)>>, <<Add(x, hx), Sub(y, hy)>>,
                                 <<Add(x, hx), Add(y, hy)>>, <<Sub(x, hx), Add(y, hy)>> >>

\* a 4 by 2 box at 45 degrees, not standalone, none of its corners at (x, y)
C11_Witness ==
    /\ last.op = "box" /\ ~last.args.standalone
    /\ last.args.angle = Num(45)
    /\ Len(last.ret) = 4
    /\ \A i \in 1 .. 4 : last.ret[i] # <<last.args.x, last.args.y>>
    /\ handles = <<>>

\* the middle of the side output_side of an unrotated box, from its centre
SideMiddle(output_side, size_x, size_y) ==
    CASE output_side = "right" -> <<Half(size_x), Zero>>
      [] output_side = "left" -> <<Neg(Half(size_x)), Zero>>
      [] output_side = "top" -> <<Zero, Half(size_y)>>
      [] output_side = "bottom" -> <<Zero, Neg(Half(size_y))>>

\* C12: the handle box_source returns is anchored at the midpoint of the side
\* output_side names, on the rotated box: at angle 0 (x+size_x/2, y) for
\* right, (x-size_x/2, y) for left, (x, y+size_y/2) for top, (x, y-size_y/2)
\* for bottom; box_source(0,0,4,2,0,'right') gives (2,0) and 'top' (0,1).
C12_BoxSourceAnchor ==
    (last.op = "box_source" /\ last.err = "ok") =>
        LET x == last.args.x
            y == last.args.y
            m == SideMiddle(last.args.output_side, last.args.size_x, last.args.size_y)
        IN  /\ <<last.ret.x, last.ret.y>> = TurnedAbout(x, y, m[1], m[2], last.args.angle)
            /\ last.args.angle = Num(0) =>
                   <<last.ret.x, last.ret.y>> = <<Add(x, m[1]), Add(y, m[2])>>
            /\ (<<x, y>> = Origin /\ last.args.angle = Num(0)
                    /\ last.args.size_x = Num(4) /\ last.args.size_y = Num(2)) =>
                   /\ last.args.output_side = "right" =>
                          <<last.ret.x, last.ret.y>> = <<Num(2), Num(0)>>
                   /\ last.args.output_side = "top" =>
                          <<last.ret.x, last.ret.y>> = <<Num(0), Num(1)>>

\* box_source(0, 0, 4, 2, 0, 'top') has returned a handle at (0, 1)
C12_Witness ==
    /\ last.op = "box_source" /\ last.err = "ok"
    /\ <<last.args.x, last.args.y>> = Origin
    /\ last.args.angle = Num(0)
    /\ last.args.output_side = "top"
    /\ <<last.ret.x, last.ret.y>> = <<Num(0), Num(1)>>
    /\ handles # <<>>


(***************************************************************************)
(* Properties of beamsplitter_cube, under Spec                             *)
(***************************************************************************)
\* the line primitives among the ones the call added
AddedLines == {i \in 1 .. Len(Added) : Added[i].kind = "line"}

\* the canvas after transmissive_cube(x, y, size, angle) on the canvas the
\* call found
CubeOnly ==
    transmissive_cube([ax |-> last.pre, aspect_ratio |-> aspect_ratio],
                      last.args.x, last.args.y, last.args.size, last.args.angle,
                      "k", NoLabel).ax

\* the call added the cube and then one line through (x, y) of logical
\* length size*sqrt(2) at the angle theta: its half-extents are
\* (size*sqrt(2)/2) * (cos theta, sin theta) * aspect_ratio
OneDiagonalAt(theta) ==
    LET x == last.args.x
        y == last.args.y
        half == Half(Mul(last.args.size, Sqrt2))
        dX == Mul(Mul(half, cosd(theta)), aspect_ratio)
        dY == Mul(Mul(half, sind(theta)), aspect_ratio)
        n == Len(CubeOnly) - Len(last.pre)
    IN  /\ Len(Added) > n
        /\ SubSeq(ax, 1, Len(CubeOnly)) = CubeOnly
        /\ AddedLines = 1 .. (n + 1)
        /\ Added[n + 1].xs = <<Sub(x, dX), Add(x, dX)>>
        /\ Added[n + 1].ys = <<Sub(y, dY), Add(y, dY)>>
        /\ get_midpoint(<< <<Added[n + 1].xs[1], Added[n + 1].ys[1]>>,
                           <<Added[n + 1].xs[2], Added[n + 1].ys[2]>> >>) = <<x, y>>

\* C13 as stated: beamsplitter_cube overlays exactly one diagonal through
\* (x, y) of logical length size*sqrt(2), at angle+45 degrees for direction
\* 'R' and at angle-45 degrees for direction 'L'.
C13_DiagonalRPlusLMinus ==
    last.op = "beamsplitter_cube" =>
        /\ last.args.direction = "R" => OneDiagonalAt(Add(last.args.angle, Num(45)))
        /\ last.args.direction = "L" => OneDiagonalAt(Sub(last.args.angle, Num(45)))

\* C13 as amended: beamsplitter_cube overlays exactly one diagonal through
\* (x, y) of logical length size*sqrt(2), at angle+45 degrees for direction
\* 'L' and at angle-45 degrees for direction 'R'.
C13_DiagonalLPlusRMinus ==
    last.op = "beamsplitter_cube" =>
        /\ last.args.direction = "L" => OneDiagonalAt(Add(last.args.angle, Num(45)))
        /\ last.args.direction = "R" => OneDiagonalAt(Sub(last.args.angle, Num(45)))
        /\ (last.args.direction = "L" /\ last.args.angle = Num(0)) =>
               LET d == Mul(Half(last.args.size), aspect_ratio)
               IN  /\ Added[5].xs = <<Sub(last.args.x, d), Add(last.args.x, d)>>
                   /\ Added[5].ys = <<Sub(last.args.y, d), Add(last.args.y, d)>>

\* a beamsplitter cube with direction 'R' at angle 0: its diagonal falls
\* from left to right
C13_Witness ==
    /\ last.op = "beamsplitter_cube" /\ last.err = "ok"
    /\ last.args.direction = "R" /\ last.args.angle = Num(0)
    /\ Cardinality(AddedLines) = 5
    /\ Added[5].ys[1] = Add(last.args.y, Mul(Half(last.args.size), aspect_ratio))
    /\ Added[5].ys[2] = Sub(last.args.y, Mul(Half(last.args.size), aspect_ratio))


(***************************************************************************)
(* Properties of Tools.get_label_coords, under SpecTools                   *)
(***************************************************************************)
\* C14: with offset = size/2 + labelpad, get_label_coords returns
\* (x, y+offset) for top, (x, y-offset) for bottom, (x-offset, y) for left,
\* (x+offset, y) for right, and (x, y) itself for centre, whatever size and
\* labelpad are.
C14_LabelCoords ==
    (last.op = "get_label_coords" /\ last.args.label_pos \in LabelPositions) =>
        LET x == last.args.x
            y == last.args.y
            offset == Add(Div(last.args.size, Num(2)), last.args.labelpad)
            label_pos == last.args.label_pos
        IN  /\ label_pos = "top" => last.ret = [x |-> x, y |-> Add(y, offset)]
            /\ label_pos = "bottom" => last.ret = [x |-> x, y |-> Sub(y, offset)]
            /\ label_pos = "left" => last.ret = [x |-> Sub(x, offset), y |-> y]
            /\ label_pos = "right" => last.ret = [x |-> Add(x, offset), y |-> y]
            /\ label_pos = "centre" => last.ret = [x |-> x, y |-> y]

\* the label of an element of size 3 with labelpad 1 at (3, 1), at the left:
\* it lands at (0.5, 1)
C14_Witness ==
    /\ last.op = "get_label_coords"
    /\ last.args.label_pos = "left"
    /\ last.args.size = Num(3) /\ last.args.labelpad = Num(1)
    /\ <<last.args.x, last.args.y>> = <<Num(3), Num(1)>>
    /\ last.ret = [x |-> Frac(1, 2), y |-> Num(1)]

\* C15: get_label_coords fails for every label_pos that is not one of top,
\* bottom, left, right, centre, and never fails for one of these five.
C15_LabelPosValidation ==
    last.op = "get_label_coords" =>
        /\ last.err \in {"ok", "ValueError"}
        /\ (last.err = "ValueError") <=>
               last.args.label_pos \notin {"top", "bottom", "left", "right", "centre"}
        /\ last.err = "ValueError" => last.ret = [x |-> None, y |-> None]

\* the American spelling 'center' is refused
C15_Witness ==
    /\ last.op = "get_label_coords"
    /\ last.args.label_pos = "center"
    /\ last.err = "ValueError"


(***************************************************************************)
(* Properties of the handles the placement calls return, under Spec        *)
(***************************************************************************)
PlacementOps == {"mirror", "convex_lens", "concave_lens", "concave_mirror",
                 "transmissive_plate", "transmissive_cube", "beamsplitter_cube",
                 "box", "box_source", "point_source", "beam_dump", "generic_circle"}

\* the last call was a placement that returned a handle to the caller
ReturnedHandle ==
    /\ last.op \in PlacementOps
    /\ last.err = "ok"
    /\ last.op = "box" => last.args.standalone

\* C17: the mode on a returned handle is 'r' exactly for mirror and
\* concave_mirror and 't' for every other placement operation.
C17_ModeByOperation ==
    ReturnedHandle =>
        /\ last.ret.mode = (IF last.op \in {"mirror", "concave_mirror"} THEN "r" ELSE "t")
        /\ handles # <<>> /\ handles[Len(handles)] = last.ret

\* a concave mirror has returned a reflective handle
C17_Witness ==
    /\ ReturnedHandle
    /\ last.op = "concave_mirror"
    /\ last.ret.mode = "r"

\* C18 as stated: the angle on a returned handle is None for box_source,
\* point_source, beam_dump and generic_circle, and the angle argument for
\* every other kind.
C18_AngleAbsentForSources ==
    ReturnedHandle =>
        IF last.op \in {"box_source", "point_source", "beam_dump", "generic_circle"}
        THEN last.ret.angle = None
        ELSE last.ret.angle = last.args.angle

\* C18 as amended: the angle on a returned handle is None for point_source,
\* beam_dump and generic_circle, and the angle argument for every other
\* kind, box_source among them.
C18_AngleAbsentForPointDumpCircle ==
    ReturnedHandle =>
        IF last.op \in {"point_source", "beam_dump", "generic_circle"}
        THEN last.ret.angle = None
        ELSE last.ret.angle = last.args.angle

\* a box source rotated by 45 degrees has returned a handle at 45 degrees
C18_Witness ==
    /\ ReturnedHandle
    /\ last.op = "box_source"
    /\ last.args.angle = Num(45)
    /\ last.ret.angle = Num(45)

\* the element kind that names each operation
KindOf(op) == IF op = "box" THEN "generic_box" ELSE op

\* C19: every placement operation builds its handle with the element kind
\* that names the operation (convex_lens with convex_lens, concave_lens with
\* concave_lens, and so on), and the kind is a field of the returned handle,
\* next to the anchor, the angle and the mode.
C19_KindNamesOperation ==
    ReturnedHandle =>
        /\ last.etype = KindOf(last.op)
        /\ "element_type" \in DOMAIN last.ret

\* C20: mirror draws a single straight segment with midpoint (x, y) and
\* length size, whatever the aspect ratio of the table; at angle 0 its ends
\* are (x-size/2, y) and (x+size/2, y); the handle returned is at (x, y).
C20_MirrorSegment ==
    last.op = "mirror" =>
        LET x == last.args.x
            y == last.args.y
            size == last.args.size
        IN  /\ Cardinality(AddedLines) = 1
            /\ Added[1].kind = "line"
            /\ Half(Add(Added[1].xs[1], Added[1].xs[2])) = x
            /\ Half(Add(Added[1].ys[1], Added[1].ys[2])) = y
            /\ Add(Mul(Sub(Added[1].xs[2], Added[1].xs[1]),
                       Sub(Added[1].xs[2], Added[1].xs[1])),
                   Mul(Sub(Added[1].ys[2], Added[1].ys[1]),
                       Sub(Added[1].ys[2], Added[1].ys[1]))) = Mul(size, size)
            /\ last.args.angle = Num(0) =>
                   /\ Added[1].xs = <<Sub(x, Half(size)), Add(x, Half(size))>>
                   /\ Added[1].ys = <<y, y>>
            /\ last.err = "ok" => last.ret.x = x /\ last.ret.y = y


(***************************************************************************)
(* Properties of what the placement calls render, under Spec               *)
(***************************************************************************)
\* C21: box draws its rectangle only when standalone is True, and then
\* returns a handle; with standalone False it returns the four corners and
\* adds no primitive to the canvas.
C21_BoxDrawsOnlyStandalone ==
    (last.op = "box" /\ last.err = "ok") =>
        IF last.args.standalone
        THEN /\ Cardinality(AddedLines) = 4
             /\ last.etype = "generic_box"
             /\ last.ret.x = last.args.x /\ last.ret.y = last.args.y
        ELSE /\ ax = last.pre
             /\ last.etype = NoneStr
             /\ Len(last.ret) = 4

\* the primitives the call added that are not its text label
AddedShapes == {i \in 1 .. Len(Added) : Added[i].kind # "text"}

\* C22: every primitive beam_dump renders (the two plate faces, the two end
\* connectors and the fill) carries draw priority 10.
C22_BeamDumpAllOnTop ==
    (last.op = "beam_dump" /\ last.err = "ok") =>
        /\ Cardinality(AddedShapes) = 5
        /\ \A i \in AddedShapes : Added[i].zorder = Num(DumpZorder)

\* C23: point_source called without a label adds no primitive to the canvas
\* and returns a handle at exactly (x, y), with no orientation and in
\* transmissive mode.
C23_PointSourceInvisible ==
    (last.op = "point_source" /\ last.args.lab.label = NoneStr) =>
        /\ last.err = "ok"
        /\ ax = last.pre
        /\ last.ret = [x |-> last.args.x, y |-> last.args.y,
                       mode |-> "t", angle |-> None]
        /\ handles # <<>> /\ handles[Len(handles)] = last.ret

\* a point source without a label placed at (3, 1) on a table that shows
\* its four edges
C23_Witness ==
    /\ last.op = "point_source" /\ last.args.lab.label = NoneStr
    /\ last.err = "ok"
    /\ <<last.ret.x, last.ret.y>> = <<Num(3), Num(1)>>
    /\ Len(ax) = 4

\* C26: box_source draws the four edges of its box in the colour the
\* caller passes.
C26_BoxSourceEdgeColour ==
    (last.op = "box_source" /\ last.err = "ok") =>
        /\ Cardinality(AddedLines) = 4
        /\ \A i \in AddedLines : Added[i].color = last.args.colour

\* the call was refused for an argument of its own: a beamsplitter
\* direction or an output side outside the allowed ones
RefusedArgument ==
    \/ last.op = "beamsplitter_cube" /\ last.args.direction \notin {"L", "R"}
    \/ last.op = "box_source" /\ last.args.output_side \notin allowed_sides

\* the text primitives the call added
AddedTexts == {i \in 1 .. Len(Added) : Added[i].kind = "text"}

\* C27: with label None, set_label does nothing: a placement call without a
\* label adds no text and is not refused for its label_pos, whatever that
\* is; unless one of its own arguments is refused it succeeds and returns
\* its handle.
C27_NoLabelNoCheck ==
    (last.op \in LabelOps /\ last.args.lab.label = NoneStr) =>
        /\ AddedTexts = {}
        /\ (last.err # "ok") <=> RefusedArgument
        /\ ReturnedHandle =>
               /\ last.ret.mode \in allowed_modes
               /\ handles # <<>> /\ handles[Len(handles)] = last.ret

\* a convex lens placed with no label and label_pos 'diagonal': the arcs
\* are drawn and the handle comes back
C27_Witness ==
    /\ last.op = "convex_lens"
    /\ last.args.lab.label = NoneStr
    /\ last.args.lab.label_pos = "diagonal"
    /\ last.err = "ok"
    /\ Len(Added) = 2
    /\ <<last.ret.x, last.ret.y>> = <<last.args.x, last.args.y>>

\* C28: a placement call that succeeds and returns a handle renders exactly
\* one text, the label, when it is given a label (with a label_pos of the
\* five), and no text when the label is None; so do the operations that
\* delegate to another one (transmissive_cube, beamsplitter_cube, beam_dump,
\* box_source): the inner call renders no second copy.
C28_OneLabelPerCall ==
    ReturnedHandle =>
        IF last.args.lab.label # NoneStr
        THEN /\ last.args.lab.label_pos \in LabelPositions
             /\ Cardinality(AddedTexts) = 1
             /\ \A i \in AddedTexts : Added[i].s = last.args.lab.label
        ELSE AddedTexts = {}

\* a transmissive cube labelled 'M1' at the top: the four lines of the cube
\* and one text
C28_Witness ==
    /\ ReturnedHandle
    /\ last.op = "transmissive_cube"
    /\ last.args.lab.label = "M1" /\ last.args.lab.label_pos = "top"
    /\ Len(Added) = 5
    /\ Added[5].kind = "text" /\ Added[5].s = "M1"
    /\ \A i \in 1 .. 4 : Added[i].kind = "line"

EdgeLength == Sub(ax[1].xs[2], ax[1].xs[1])
EdgeWidth == Sub(ax[3].ys[2], ax[3].ys[1])

\* C25: the canvas is append-only and ordered by call order: each call
\* finds the canvas the call before it left and adds what it renders at the
\* end, so that no call removes, reorders or alters a primitive already
\* there; a step that is not a call renders nothing; and aspect_ratio is
\* length/width from construction on, whatever is called.
C25_CanvasInCallOrder ==
    /\ [](aspect_ratio = Div(EdgeLength, EdgeWidth))
    /\ [][/\ aspect_ratio' = aspect_ratio
          /\ tstate' = tstate
          /\ Len(ax') >= Len(ax)
          /\ \A i \in 1 .. Len(ax) : ax'[i] = ax[i]
          /\ IF calls' # calls
             THEN /\ last'.pre = ax
                  /\ ax' = last'.pre \o SubSeq(ax', Len(ax) + 1, Len(ax'))
             ELSE ax' = ax /\ last' = last]_vars

\* on the 10 by 4 table: a mirror, then a point source, then a beam from the
\* one to the other; the canvas is the four edges, the mirror line and the
\* beam segment, in that order
C25_Witness ==
    /\ calls = 3 /\ Len(handles) = 2
    /\ aspect_ratio = Frac(5, 2)
    /\ handles[1].mode = "r" /\ handles[2].mode = "t"
    /\ last.op = "draw" /\ last.args.optics = handles
    /\ Len(ax) = 6
    /\ ax[5].kind = "line" /\ ax[5].lw = None
    /\ ax[6].kind = "line" /\ ax[6].lw = beam.width
    /\ ax[6].xs = <<handles[1].x, handles[2].x>>

=============================================================================
